---- MODULE Spec2Model ----
(***************************************************************************)
(* prot2rust: a generator of bit-field and packed-structure accessor code. *)
(*                                                                         *)
(* The module models the generator (src/src/generate/bitfield.rs,          *)
(* src/src/generate/structure.rs, src/src/util.rs) and the behaviour of    *)
(* the code it emits.  Unsigned machine integers wider than TLC's own      *)
(* integers (u64 registers, u32 sums near 2^32) are modelled exactly:      *)
(* a register value is the set of its set bit positions, a u32 is a pair   *)
(* of 16-bit limbs.                                                        *)
(***************************************************************************)
EXTENDS Integers, Sequences, FiniteSets, TLC

VARIABLES
    opts,       \* the AlternativeOptions value under construction
    phase,      \* position of the run inside the specification at hand
    bitcount,   \* Width Resolver: the u32 handed to to_ty / to_ty_width
    resolved,   \* Width Resolver: the pair of results
    fields,     \* BitField.fields: the slots pushed so far
    gen,        \* what bitfield::render returned for fields
    bits,       \* W.bits: the register of the generated writer
    initBits,   \* the register value W::new was given
    last,       \* per slot: the value last handed to its field writer
    op,         \* the generated call made last: <<kind, slot>>
    registry,   \* Alternatives.map: group name -> AlternativeOptions
    members,    \* Structure.members: the members pushed so far
    sgen,       \* what render_with_alts returned for members and registry
    agen,       \* what render_alternatives returned for registry
    inst,       \* the instance of the emitted type at hand
    out,        \* the sink the emitted write was called with, afterwards
    rd          \* what the emitted read returned

vars == <<opts, phase, bitcount, resolved, fields, gen, bits, initBits, last, op,
          registry, members, sgen, agen, inst, out, rd>>

----------------------------------------------------------------------------
(* Bounds of the model *)

\* largest bit count handed to the Width Resolver
MaxBits == 130

\* most slots a bitfield schema is given
MaxSlots == 2
\* options in one group of alternatives
MaxOptions == 2
\* members pushed onto a structure by the builder calls of a run
MaxMembers == 2
\* slots of a register whose layout alone is rendered: three slots of the
\* largest width wrap the u32 sum
MaxLayoutSlots == 3

----------------------------------------------------------------------------
(* util.rs: the Width Resolver *)

\* Result<u32> and Result<Ident>: Ok(v), or the anyhow! error
Ok(v) == [ok |-> TRUE, v |-> v]
ErrWidth == [ok |-> FALSE, v |-> 0]
ErrTy == [ok |-> FALSE, v |-> ""]

\* U32Ext::to_ty_width with the boundary 8 moved into the next arm
ToTyWidthOffByOne(n) ==
    CASE n = 1 -> Ok(1)
      [] n >= 2 /\ n <= 7 -> Ok(8)
      [] n >= 8 /\ n <= 16 -> Ok(16)
      [] n >= 17 /\ n <= 32 -> Ok(32)
      [] n >= 33 /\ n <= 64 -> Ok(64)
      [] OTHER -> ErrWidth

\* U32Ext::to_ty_width: the match on *self
to_ty_width(n) ==
    CASE n = 1 -> Ok(1)
      [] n >= 2 /\ n <= 8 -> Ok(8)
      [] n >= 9 /\ n <= 16 -> Ok(16)
      [] n >= 17 /\ n <= 32 -> Ok(32)
      [] n >= 33 /\ n <= 64 -> Ok(64)
      [] OTHER -> ErrWidth

\* U32Ext::to_ty: the match on *self, the identifier it builds
to_ty(n) ==
    CASE n = 1 -> Ok("bool")
      [] n >= 2 /\ n <= 8 -> Ok("u8")
      [] n >= 9 /\ n <= 16 -> Ok("u16")
      [] n >= 17 /\ n <= 32 -> Ok("u32")
      [] n >= 33 /\ n <= 64 -> Ok("u64")
      [] OTHER -> ErrTy

\* number of bits of a Rust type named by to_ty
TyBits(ty) ==
    CASE ty = "bool" -> 1
      [] ty = "u8" -> 8
      [] ty = "u16" -> 16
      [] ty = "u32" -> 32
      [] ty = "u64" -> 64

----------------------------------------------------------------------------
(* Machine integers *)

\* A u64 (or narrower) value is the set of the positions of its 1 bits.
\* A u32 that must wrap at 2^32 is a pair <<high limb, low limb>> of 16 bits.

Max(S) == CHOOSE x \in S : \A y \in S : y <= x
Min(S) == CHOOSE x \in S : \A y \in S : x <= y

Limb == 2^16

\* the bits of a small natural
NatBits(n) == {i \in 0..30 : (n \div (2^i)) % 2 = 1}

\* the natural a set of bit positions below 31 stands for
RECURSIVE BitsNat(_)
BitsNat(S) == IF S = {} THEN 0 ELSE LET x == Max(S) IN 2^x + BitsNat(S \ {x})

AllOnes(w) == 0..(w - 1)

\* x << k in a w-bit type, k < w: the bits shifted out are lost
Shl(S, k, w) == {i + k : i \in S} \cap AllOnes(w)
\* x >> k
Shr(S, k) == {i - k : i \in {j \in S : j >= k}}
And(S, T) == S \cap T
Or(S, T) == S \cup T
\* !x in a w-bit type
Not(S, w) == AllOnes(w) \ S
\* x as uW: truncation or zero extension
Cast(S, w) == S \cap AllOnes(w)
\* x - 1 for x # 0: borrow through the low zero bits
Sub1(S) == LET k == Min(S) IN (S \ {k}) \cup AllOnes(k)
\* a < b as unsigned numbers: the highest bit they differ in is b's
BitLess(a, b) == a # b /\ Max((a \ b) \cup (b \ a)) \in b

U32(n) == <<n \div Limb, n % Limb>>
\* a + b on u32: the wrapped sum and whether it overflowed
U32Add(a, b) ==
    LET lo == a[2] + b[2]
        hi == a[1] + b[1] + (lo \div Limb)
    IN [v |-> <<hi % Limb, lo % Limb>>, ovf |-> hi >= Limb]
\* the number a match on small literal arms sees: exact below 2^16, and a
\* number beyond every arm otherwise
U32Arm(a) == IF a[1] = 0 THEN a[2] ELSE Limb
\* a % 64, the shift amount a wrapping 64-bit shift uses
U32Mod64(a) == a[2] % 64

----------------------------------------------------------------------------
(* util.rs: literals *)

\* (n >> 16*g) & 0xffff
HexGroup(n, g) == BitsNat({i \in 0..15 : (16 * g + i) \in n})

\* util::hex: the 16-bit groups the format string prints, most significant
\* first, and the digits of each (4, or 2 for a value below 0x100)
hex(n) ==
    LET h4 == HexGroup(n, 3)
        h3 == HexGroup(n, 2)
        h2 == HexGroup(n, 1)
        h1 == HexGroup(n, 0)
    IN  IF h4 # 0 THEN [groups |-> <<h4, h3, h2, h1>>, digits |-> 4]
        ELSE IF h3 # 0 THEN [groups |-> <<h3, h2, h1>>, digits |-> 4]
        ELSE IF h2 # 0 THEN [groups |-> <<h2, h1>>, digits |-> 4]
        ELSE IF h1 \div 256 # 0 THEN [groups |-> <<h1>>, digits |-> 4]
        ELSE IF h1 # 0 THEN [groups |-> <<h1 % 256>>, digits |-> 2]
        ELSE [groups |-> <<0>>, digits |-> 1]

\* the value rustc reads from a literal hex printed
LitBits(lit) ==
    LET n == Len(lit.groups)
    IN UNION {{16 * (n - g) + i : i \in NatBits(lit.groups[g])} : g \in 1..n}

\* util::unsuffixed_or_bool: the pattern token of an enumerated value
unsuffixed_or_bool(n, width) ==
    IF width = 1 THEN [tok |-> "bool", val |-> IF n = 0 THEN {} ELSE {0}]
    ELSE [tok |-> "int", val |-> NatBits(n)]

----------------------------------------------------------------------------
(* bitfield.rs: the schema and its builder *)

Field(bitsize, evs) == [kind |-> "Field", bitsize |-> bitsize, evs |-> evs]
Reserved(bitsize) == [kind |-> "Reserved", bitsize |-> bitsize, evs |-> <<>>]

\* BitField::add_bit_field: BitFieldMember::new, the caller's closure adding
\* enumerated values with add_enum_value, then add_field
add_bit_field(fs, bitsize, evs) == Append(fs, Field(bitsize, evs))

\* BitField::add_reserved
add_reserved(fs, bitsize) == Append(fs, Reserved(bitsize))

----------------------------------------------------------------------------
(* bitfield.rs: add_field and render *)

NotRendered == [status |-> "none", structsize |-> 0, accs |-> <<>>]
RenderErr == [status |-> "err", structsize |-> 0, accs |-> <<>>]
RenderPanic == [status |-> "panic", structsize |-> 0, accs |-> <<>>]

NoAcc == [status |-> "reserved"]

\* a running offset that only named fields advance
RECURSIVE OffsetSkippingReserved(_, _)
OffsetSkippingReserved(fs, i) ==
    IF i = 1 THEN [v |-> U32(0), ovf |-> FALSE]
    ELSE LET p == OffsetSkippingReserved(fs, i - 1)
             s == U32Add(p.v, U32(IF fs[i - 1].kind = "Field"
                                  THEN fs[i - 1].bitsize ELSE 0))
         IN [v |-> s.v, ovf |-> p.ovf \/ s.ovf]

\* the running offset of render's loop before slot i, and whether a u32
\* addition overflowed on the way; at Len + 1 the sum of all bit sizes
RECURSIVE OffsetAt(_, _)
OffsetAt(fs, i) ==
    IF i = 1 THEN [v |-> U32(0), ovf |-> FALSE]
    ELSE LET p == OffsetAt(fs, i - 1)
             s == U32Add(p.v, U32(fs[i - 1].bitsize))
         IN [v |-> s.v, ovf |-> p.ovf \/ s.ovf]

\* 1 << k on a 64-bit integer: overflow when k >= 64 (panic with overflow
\* checks, otherwise the shift amount wraps)
Shl1(k, checks) ==
    IF k < 64 THEN [status |-> "ok", v |-> {k}]
    ELSE IF checks THEN [status |-> "panic", v |-> {}]
    ELSE [status |-> "ok", v |-> {k % 64}]

\* add_field: the tokens it emits for one named field.  checks: whether the
\* generator was built with overflow checks.
add_field(field, structsize, offset, checks) ==
    LET fty == to_ty(field.bitsize)
        one == Shl1(field.bitsize, checks)
        width == to_ty_width(field.bitsize)
        noptions == Shl1(width.v, checks)
        pos == IF offset[1] = 0 /\ offset[2] < 64
               THEN Shl1(offset[2], checks)
               ELSE Shl1(64 + U32Mod64(offset), checks)
    IN  IF ~fty.ok THEN [status |-> "err"]
        ELSE IF one.status = "panic" THEN [status |-> "panic"]
        ELSE IF noptions.status = "panic" THEN [status |-> "panic"]
        ELSE IF field.bitsize = 1 /\ pos.status = "panic" THEN [status |-> "panic"]
        ELSE [status |-> "ok",
              bitsize |-> field.bitsize,
              fty |-> fty.v,
              field_offset |-> offset,
              field_mask |-> hex(Sub1(one.v)),
              reader_mask |-> IF field.bitsize = 1 THEN hex(pos.v) ELSE hex({}),
              ev_variants |-> [k \in 1..Len(field.evs) |->
                                  unsuffixed_or_bool(field.evs[k], field.bitsize)],
              ev_values |-> field.evs,
              fallback |-> BitLess(NatBits(Len(field.evs)), noptions.v)]

\* render: the register width from the sum of the slot widths, then the
\* loop over the slots; the first failing field ends it
render(fs, checks) ==
    LET total == OffsetAt(fs, Len(fs) + 1)
        structsize == to_ty_width(U32Arm(total.v))
        accs == [i \in 1..Len(fs) |->
                    IF fs[i].kind = "Field"
                    THEN add_field(fs[i], structsize.v, OffsetAt(fs, i).v, checks)
                    ELSE NoAcc]
        bad == {i \in 1..Len(fs) : accs[i].status \in {"err", "panic"}}
    IN  IF checks /\ total.ovf THEN RenderPanic
        ELSE IF ~structsize.ok THEN RenderErr
        ELSE IF bad # {} THEN
            (IF accs[Min(bad)].status = "err" THEN RenderErr ELSE RenderPanic)
        ELSE [status |-> "ok", structsize |-> structsize.v, accs |-> accs]

----------------------------------------------------------------------------
(* bitfield.rs: what the emitted reader and writer do *)

Named(g) == {i \in 1..Len(g.accs) : g.accs[i].status = "ok"}

\* a match over the raw bits covers every value: the `_` arm, or both
\* patterns of a bool
Exhaustive(acc) ==
    \/ acc.fallback
    \/ /\ acc.fty = "bool"
       /\ \A b \in {{}, {0}} : \E k \in 1..Len(acc.ev_variants) :
              acc.ev_variants[k].val = b

\* rustc accepts the emitted module: the register is an integer, every
\* literal fits the register type, every shift amount is below its width
Compiles(g) ==
    /\ g.status = "ok"
    /\ g.structsize # 1
    /\ \A i \in Named(g) :
          LET acc == g.accs[i] IN
          /\ acc.field_offset[1] = 0
          /\ acc.field_offset[2] < g.structsize
          /\ LitBits(acc.field_mask) \subseteq AllOnes(g.structsize)
          /\ LitBits(acc.reader_mask) \subseteq AllOnes(g.structsize)
          /\ Exhaustive(acc)

\* the emitted writer without the mask on the value
W_bits_Unmasked(acc, structsize, reg, value) ==
    LET off == acc.field_offset[2]
        mask == LitBits(acc.field_mask)
    IN Or(And(reg, Not(Shl(mask, off, structsize), structsize)),
          Shl(Cast(value, structsize), off, structsize))

\* <Field>W::bits:
\*   self.w.bits = (self.w.bits & !(mask << offset))
\*               | ((value as sty & mask) << offset)
W_bits(acc, structsize, reg, value) ==
    LET off == acc.field_offset[2]
        mask == LitBits(acc.field_mask)
    IN Or(And(reg, Not(Shl(mask, off, structsize), structsize)),
          Shl(And(Cast(value, structsize), mask), off, structsize))

\* the emitted reader masking before the shift
R_field_MaskFirst(acc, structsize, reg) ==
    IF acc.bitsize = 1
    THEN (IF And(reg, LitBits(acc.reader_mask)) # {} THEN {0} ELSE {})
    ELSE Cast(Shr(And(reg, LitBits(acc.field_mask)), acc.field_offset[2]),
              TyBits(acc.fty))

\* R::<field>: the raw bits handed to <Field>R::new
\*   1 bit:  (self.bits & reader_mask) != 0
\*   else:   ((self.bits >> offset) & mask) as fty
R_field(acc, structsize, reg) ==
    IF acc.bitsize = 1
    THEN (IF And(reg, LitBits(acc.reader_mask)) # {} THEN {0} ELSE {})
    ELSE Cast(And(Shr(reg, acc.field_offset[2]), LitBits(acc.field_mask)),
              TyBits(acc.fty))

\* From<<Field>A> for fty: the raw value of the k-th declared variant
\*   1 bit:  variant as u8 != 0
\*   else:   variant as _
variant_into(acc, k) ==
    IF acc.bitsize = 1
    THEN (IF Cast(NatBits(acc.ev_values[k]), 8) # {} THEN {0} ELSE {})
    ELSE Cast(NatBits(acc.ev_values[k]), TyBits(acc.fty))

\* <Field>R::variant: the index of the first arm whose pattern equals the raw
\* bits; 0 stands for the `_ => unreachable!()` arm
R_variant(acc, raw) ==
    LET hit == {k \in 1..Len(acc.ev_variants) : acc.ev_variants[k].val = raw}
    IN IF hit # {} THEN Min(hit) ELSE 0

----------------------------------------------------------------------------
(* structure.rs: the schema and its builders *)

PrimitiveMember(bytes) == [kind |-> "prim", bytes |-> bytes, alternatives |-> ""]
BitfieldMember(bytes) == [kind |-> "bitfield", bytes |-> bytes, alternatives |-> ""]
AlternativesMember(group) == [kind |-> "alt", bytes |-> 0, alternatives |-> group]

\* SimpleStructure::new: the one member of a simple structure
SimpleStructure_new(bytes) == [kind |-> "simple", bytes |-> bytes, alternatives |-> ""]

\* Structure::add_prim_field (add_u8_field .. add_u64_field call it)
add_prim_field(ms, bytes) == Append(ms, PrimitiveMember(bytes))
\* Structure::add_bitfield
add_bitfield(ms, bytes) == Append(ms, BitfieldMember(bytes))
\* Structure::add_alt_field: the member keeps the name of the options
add_alt_field(ms, options) == Append(ms, AlternativesMember(options.name))

\* the names of the structures and groups of the MAC header description
StructNames == {"addr_none", "addr_short", "addr_extended", "pan_none", "pan_short"}
Groups == {"address", "panid"}

\* main.rs render_mac: the option structures
Library(name) ==
    CASE name = "addr_none" -> <<>>
      [] name = "addr_short" -> add_prim_field(<<>>, 2)
      [] name = "addr_extended" -> add_prim_field(<<>>, 8)
      [] name = "pan_none" -> <<>>
      [] name = "pan_short" -> add_prim_field(<<>>, 2)

\* to_sanitized_pascal_case on the names above
PascalCase(name) ==
    CASE name = "addr_none" -> "AddrNone"
      [] name = "addr_short" -> "AddrShort"
      [] name = "addr_extended" -> "AddrExtended"
      [] name = "pan_none" -> "PanNone"
      [] name = "pan_short" -> "PanShort"
      [] name = "address" -> "Address"
      [] name = "panid" -> "Panid"
      [] name = "" -> ""

\* the structure an emitted type identifier names
StructOfIdent(ident) == CHOOSE name \in StructNames : PascalCase(name) = ident

NoOptions == [present |-> FALSE, name |-> "", default |-> "", alternatives |-> <<>>]

\* AlternativeOptions::insert_type
insert_type(options, structure) ==
    [options EXCEPT !.alternatives = Append(@, structure)]

\* options whose list starts empty
AlternativeOptionsNewBare(name, default) ==
    [present |-> TRUE, name |-> name, default |-> default, alternatives |-> <<>>]

\* AlternativeOptions::new
AlternativeOptions_new(name, default) ==
    insert_type([present |-> TRUE, name |-> name, default |-> default,
                 alternatives |-> <<>>], default)

\* Alternatives::new
Alternatives_new == [g \in Groups |-> NoOptions]

\* Alternatives::insert: keyed by the name of the options
Alternatives_insert(map, options) == [map EXCEPT ![options.name] = options]

\* a chain of insert_type calls, as main.rs and the closures handed to
\* insert_new_option make them
RECURSIVE insert_types(_, _)
insert_types(options, more) ==
    IF more = <<>> THEN options
    ELSE insert_types(insert_type(options, Head(more)), Tail(more))

\* Alternatives::insert_new_option: the closure f inserts the structures more
insert_new_option(map, key, default, more) ==
    [map EXCEPT ![key] = insert_types(AlternativeOptions_new(key, default), more)]

\* a lookup that finds every group
AlternativesGetAny(map, name) ==
    IF name \in Groups THEN [ok |-> TRUE, v |-> map[name]]
    ELSE [ok |-> FALSE, v |-> NoOptions]

\* Alternatives::get
Alternatives_get(map, name) ==
    IF name \in Groups /\ map[name].present THEN [ok |-> TRUE, v |-> map[name]]
    ELSE [ok |-> FALSE, v |-> NoOptions]

\* main.rs render_mac: the registry and the structure mhr
MacRegistry ==
    LET address == insert_type(insert_type(
                       AlternativeOptions_new("address", "addr_none"),
                       "addr_short"), "addr_extended")
        panid == insert_type(AlternativeOptions_new("panid", "pan_none"), "pan_short")
    IN Alternatives_insert(Alternatives_insert(Alternatives_new, address), panid)

\* a registry the group panid was never inserted into
AddressRegistry == Alternatives_insert(Alternatives_new, MacRegistry["address"])

\* a registry whose group address was written as a struct literal: the
\* declared default is not the head of the option list
LiteralRegistry ==
    Alternatives_insert(MacRegistry,
        [present |-> TRUE, name |-> "address", default |-> "addr_short",
         alternatives |-> <<"addr_none", "addr_short">>])

Mhr ==
    LET address == MacRegistry["address"]
        panid == MacRegistry["panid"]
    IN add_alt_field(add_alt_field(add_alt_field(add_alt_field(
           add_prim_field(add_bitfield(<<>>, 2), 1),
           panid), address), panid), address)

----------------------------------------------------------------------------
(* structure.rs: render_alternatives and render_with_alts *)

NotRenderedAlts == [status |-> "none", items |-> <<>>]
\* no routine emitted
NoFuns == [read |-> FALSE, write |-> FALSE, generic |-> FALSE,
           generic_read |-> FALSE, generic_write |-> FALSE, write_unsafe |-> FALSE]

NotRenderedStruct == [status |-> "none", has_alt |-> FALSE, mems |-> <<>>,
                      templ |-> <<>>, default_templ |-> <<>>, funs |-> NoFuns]
StructErr == [status |-> "err", has_alt |-> FALSE, mems |-> <<>>,
              templ |-> <<>>, default_templ |-> <<>>, funs |-> NoFuns]
StructPanic == [status |-> "panic", has_alt |-> FALSE, mems |-> <<>>,
                templ |-> <<>>, default_templ |-> <<>>, funs |-> NoFuns]

\* read and write emitted on the structure, whatever its members
EmittedFunsOnBoth(has_alt) ==
    [read |-> TRUE, write |-> TRUE, generic |-> has_alt,
     generic_read |-> FALSE, generic_write |-> has_alt, write_unsafe |-> has_alt]

\* the routines render_with_alts emits: write_fun is unsafe if has_alt;
\* maybe_write_fun and maybe_read_fun, emitted on the structure, are empty
\* if has_alt; <Name>Generic, with default and write_fun, is emitted if has_alt
emitted_funs(has_alt) ==
    [read |-> ~has_alt, write |-> ~has_alt, generic |-> has_alt,
     generic_read |-> FALSE, generic_write |-> has_alt, write_unsafe |-> has_alt]

\* the items render_alternatives emits for one group: the trait, the enum
\* <Group>A with one entry, one write arm and one read_<option> per option,
\* and default() from the head of the option list
AlternativesItem(key, alt) ==
    [key |-> key,
     trait |-> PascalCase(key),
     enum |-> <<PascalCase(key), "A">>,
     entries |-> [k \in 1..Len(alt.alternatives) |->
                     [case |-> PascalCase(alt.alternatives[k]),
                      struct |-> PascalCase(alt.alternatives[k]),
                      read |-> <<"read_", alt.alternatives[k]>>]],
     default_case |-> PascalCase(alt.alternatives[1])]

\* render_alternatives: the loop over the map, in the order the HashMap
\* yields its keys; indexing the head of an empty option list panics
render_alternatives(map, order) ==
    IF \E i \in 1..Len(order) : map[order[i]].alternatives = <<>>
    THEN [status |-> "panic", items |-> <<>>]
    ELSE [status |-> "ok",
          items |-> [i \in 1..Len(order) |-> AlternativesItem(order[i], map[order[i]])]]

\* bytes * 8 on u32: three doublings
Mul8(bytes) ==
    LET x2 == U32Add(U32(bytes), U32(bytes))
        x4 == U32Add(x2.v, x2.v)
        x8 == U32Add(x4.v, x4.v)
    IN [v |-> x8.v, ovf |-> x2.ovf \/ x4.ovf \/ x8.ovf]

\* what the second loop of render_with_alts emits for one member
render_member(mem, checks) ==
    IF mem.kind = "alt"
    THEN [status |-> "ok", kind |-> "alt", sty |-> "", bytes |-> 0,
          alternatives |-> mem.alternatives]
    ELSE LET bits8 == Mul8(mem.bytes)
             sty == to_ty(U32Arm(bits8.v))
         IN  IF checks /\ bits8.ovf
             THEN [status |-> "panic", kind |-> mem.kind, sty |-> "", bytes |-> 0,
                   alternatives |-> ""]
             ELSE IF ~sty.ok
             THEN [status |-> "err", kind |-> mem.kind, sty |-> "", bytes |-> 0,
                   alternatives |-> ""]
             ELSE [status |-> "ok", kind |-> mem.kind, sty |-> sty.v,
                   bytes |-> mem.bytes, alternatives |-> ""]

\* a type argument taken from the head of the option list
AltDefaultFromHead(options) ==
    IF options.alternatives = <<>> THEN "" ELSE PascalCase(options.alternatives[1])

\* alt_default of the first loop: the declared default of the group
alt_default(options) == PascalCase(options.default)

\* render_with_alts: the first loop resolves the groups of the alternative
\* members, the second emits every member; has_alt selects what is emitted
render_with_alts(ms, map, checks) ==
    LET alts == {i \in 1..Len(ms) : ms[i].kind = "alt"}
        unknown == {i \in alts : ~Alternatives_get(map, ms[i].alternatives).ok}
        mems == [i \in 1..Len(ms) |-> render_member(ms[i], checks)]
        bad == {i \in 1..Len(ms) : mems[i].status # "ok"}
        altsInOrder == LET RECURSIVE sel(_)
                           sel(i) == IF i > Len(ms) THEN <<>>
                                     ELSE IF i \in alts THEN <<i>> \o sel(i + 1)
                                     ELSE sel(i + 1)
                       IN sel(1)
    IN  IF unknown # {} THEN StructErr
        ELSE IF bad # {} THEN
            (IF mems[Min(bad)].status = "err" THEN StructErr ELSE StructPanic)
        ELSE [status |-> "ok",
              has_alt |-> alts # {},
              mems |-> mems,
              templ |-> altsInOrder,
              default_templ |->
                  [k \in 1..Len(altsInOrder) |->
                      alt_default(map[ms[altsInOrder[k]].alternatives])],
              funs |-> emitted_funs(alts # {})]

\* render_simple: the member resolved as render_with_alts resolves a
\* primitive member; new, of_value, get, set, write and read are emitted
render_simple(structure, checks) ==
    LET mem == render_member(structure, checks)
    IN  IF mem.status = "err" THEN StructErr
        ELSE IF mem.status = "panic" THEN StructPanic
        ELSE [status |-> "ok", has_alt |-> FALSE, mems |-> <<mem>>,
              templ |-> <<>>, default_templ |-> <<>>,
              funs |-> [read |-> TRUE, write |-> TRUE, generic |-> FALSE,
                        generic_read |-> FALSE, generic_write |-> FALSE,
                        write_unsafe |-> FALSE]]

\* pub type <Name>Default = <Name><default_templ>, emitted if default_templ
\* is not empty
default_alias(g) ==
    [emitted |-> g.default_templ # <<>>, args |-> g.default_templ]

\* render: render_with_alts with an empty registry
render_structure(ms) == render_with_alts(ms, Alternatives_new, FALSE)

----------------------------------------------------------------------------
(* The code render_with_alts and render_alternatives emit *)

\* the sinks the emitted write is handed: a Vec<u8>, a &mut [u8] with room
\* left, a sink whose write fails
VecSink == [kind |-> "vec", room |-> 0, data |-> <<>>]
SliceSink(room) == [kind |-> "slice", room |-> room, data |-> <<>>]
BrokenSink == [kind |-> "broken", room |-> 0, data |-> <<>>]

\* what a call of an emitted write leaves: the sink handed in, the sink
\* afterwards, whether Ok(()) was returned
WriteResult(into, r) == [ok |-> r.ok, sink |-> r.sink, into |-> into]
NoWrite == [ok |-> FALSE, sink |-> BrokenSink, into |-> BrokenSink]
NoRead == [ok |-> FALSE, v |-> <<>>, rest |-> <<>>]

\* Write::write as out.write(..)? sees it: the sink takes the bytes it has
\* room for and returns their number, or fails
sink_write(sink, bytes) ==
    LET n == IF sink.kind = "vec" THEN Len(bytes) ELSE Min({Len(bytes), sink.room})
    IN  IF sink.kind = "broken" THEN [ok |-> FALSE, sink |-> sink]
        ELSE [ok |-> TRUE,
              sink |-> [kind |-> sink.kind,
                        room |-> IF sink.kind = "vec" THEN 0 ELSE sink.room - n,
                        data |-> sink.data \o SubSeq(bytes, 1, n)]]

\* a reader that hands out zeros once the stream has ended
ReadExactPadded(stream, n) ==
    LET padded == stream \o [k \in 1..n |-> 0]
    IN  [ok |-> TRUE, v |-> SubSeq(padded, 1, n),
         rest |-> SubSeq(stream, n + 1, Len(stream))]

\* Read::read_exact on a byte stream: all n bytes or an error
read_exact(stream, n) ==
    IF Len(stream) < n THEN NoRead
    ELSE [ok |-> TRUE, v |-> SubSeq(stream, 1, n), rest |-> SubSeq(stream, n + 1, Len(stream))]

\* <sty>::to_le_bytes: byte k holds bits 8(k-1) .. 8(k-1)+7
to_le_bytes(v, n) == [k \in 1..n |-> BitsNat({j \in 0..7 : 8 * (k - 1) + j \in v})]

\* <sty>::from_le_bytes
from_le_bytes(bs) ==
    {b \in 0..(8 * Len(bs) - 1) : (b % 8) \in NatBits(bs[(b \div 8) + 1])}

\* the emitted structure is accepted by rustc: read hands a [u8; bytes]
\* buffer to <sty>::from_le_bytes, which takes [u8; size_of::<sty>()]
StructCompiles(g) ==
    /\ g.status = "ok"
    /\ ~g.has_alt =>
          \A i \in 1..Len(g.mems) : g.mems[i].bytes = TyBits(g.mems[i].sty) \div 8

\* the emitted alternatives are accepted by rustc: an option named twice
\* declares an enum entry and a trait impl twice
AltCompiles(item) ==
    \A k, l \in 1..Len(item.entries) :
        item.entries[k].case = item.entries[l].case => k = l

\* what render emits for an option structure
LibGen(ident) == render_structure(Library(StructOfIdent(ident)))

\* <Name>::new of a structure without alternative members: every member 0
struct_new(g) == [i \in 1..Len(g.mems) |-> {}]

\* <Group>A::default
union_default(item) ==
    [case |-> item.default_case,
     payload |-> struct_new(LibGen(item.default_case))]

\* the emitted write of an option structure, which has fixed members only:
\* one out.write(&self.<member>.to_le_bytes())? per member, then Ok(())
RECURSIVE option_write_from(_, _, _, _)
option_write_from(g, v, i, sink) ==
    LET r == sink_write(sink, to_le_bytes(v[i], TyBits(g.mems[i].sty) \div 8))
    IN  IF i > Len(g.mems) THEN [ok |-> TRUE, sink |-> sink]
        ELSE IF ~r.ok THEN r
        ELSE option_write_from(g, v, i + 1, r.sink)

option_write(g, v, sink) == option_write_from(g, v, 1, sink)

\* <Group>A::write emitting the number of the case before the payload
UnionWriteTagged(item, uval, sink) ==
    LET k == CHOOSE k \in 1..Len(item.entries) : item.entries[k].case = uval.case
        t == sink_write(sink, <<k - 1>>)
    IN  IF ~t.ok THEN t
        ELSE option_write(LibGen(item.entries[k].struct), uval.payload, t.sink)

\* <Group>A::write: the arm of the case at hand calls the write of its payload
union_write(item, uval, sink) ==
    LET k == CHOOSE k \in 1..Len(item.entries) : item.entries[k].case = uval.case
    IN  option_write(LibGen(item.entries[k].struct), uval.payload, sink)

\* the emitted write of a structure or of its <Name>Generic form: one
\* out.write(..)? or self.<member>.write(out)? per member, then Ok(())
RECURSIVE write_from(_, _, _, _, _)
write_from(g, map, v, i, sink) ==
    LET mem == g.mems[i]
        r == IF mem.kind = "alt"
             THEN union_write(AlternativesItem(mem.alternatives, map[mem.alternatives]),
                              v[i], sink)
             ELSE sink_write(sink, to_le_bytes(v[i], TyBits(mem.sty) \div 8))
    IN  IF i > Len(g.mems) THEN [ok |-> TRUE, sink |-> sink]
        ELSE IF ~r.ok THEN r
        ELSE write_from(g, map, v, i + 1, r.sink)

struct_write(g, map, v, sink) == write_from(g, map, v, 1, sink)

\* the emitted read: per member a buffer of the declared byte width filled by
\* read_exact and decoded, the first error returned
RECURSIVE read_from(_, _, _)
read_from(g, i, stream) ==
    IF i > Len(g.mems) THEN [ok |-> TRUE, v |-> <<>>, rest |-> stream]
    ELSE LET buffer == read_exact(stream, g.mems[i].bytes)
             tail == read_from(g, i + 1, buffer.rest)
         IN  IF ~buffer.ok THEN NoRead
             ELSE IF ~tail.ok THEN NoRead
             ELSE [ok |-> TRUE, v |-> <<from_le_bytes(buffer.v)>> \o tail.v,
                   rest |-> tail.rest]

struct_read(g, stream) == read_from(g, 1, stream)

\* <Group>A::read_<option>, the k-th of the read functions
union_read(item, k, stream) ==
    LET r == struct_read(LibGen(item.entries[k].struct), stream)
    IN  IF ~r.ok THEN NoRead
        ELSE [ok |-> TRUE, v |-> [case |-> item.entries[k].case, payload |-> r.v],
              rest |-> r.rest]

\* <Name>Generic::default
generic_default(g, map) ==
    [i \in 1..Len(g.mems) |->
        IF g.mems[i].kind = "alt"
        THEN union_default(AlternativesItem(g.mems[i].alternatives,
                                            map[g.mems[i].alternatives]))
        ELSE {}]

----------------------------------------------------------------------------
(* Specification of the Width Resolver alone *)

\* the bitfield variables of a run that renders no bitfield
BitfieldIdle ==
    /\ fields = <<>>
    /\ gen = NotRendered
    /\ bits = {}
    /\ initBits = {}
    /\ last = <<>>
    /\ op = <<"none", 0>>

\* the structure variables of a run that renders no structure
StructIdle ==
    /\ opts = NoOptions
    /\ registry = Alternatives_new
    /\ members = <<>>
    /\ sgen = NotRenderedStruct
    /\ agen = NotRenderedAlts
    /\ inst = <<>>
    /\ out = NoWrite
    /\ rd = NoRead

bitfieldVars == <<fields, gen, bits, initBits, last, op>>
widthVars == <<bitcount, resolved>>
structVars == <<opts, registry, members, sgen, agen, inst, out, rd>>

InitWidth ==
    /\ phase = "input"
    /\ bitcount \in 0..MaxBits
    /\ resolved = <<>>
    /\ BitfieldIdle
    /\ StructIdle

Resolve ==
    /\ phase = "input"
    /\ phase' = "resolved"
    /\ resolved' = <<to_ty_width(bitcount), to_ty(bitcount)>>
    /\ UNCHANGED <<bitcount, bitfieldVars, structVars>>

NextWidth == Resolve

SpecWidth == InitWidth /\ [][NextWidth]_vars

----------------------------------------------------------------------------
(* Specification of the Bitfield Engine and of the code it emits *)

(* the inputs the runs draw from *)

\* a reserved width near the top of u32: three such slots wrap the u32 sum
Huge == (2^30 - 1) * 2 + 1

\* bit sizes of the named fields the builder is called with
FieldSizes == {0, 1, 3, 33, 64, 65}

\* the enumerated values the closure of add_bit_field declares
EnumLists(bitsize) == IF bitsize \in {1, 3} THEN {<<0, 1>>} ELSE {<<>>}

\* bit sizes of the reserved gaps the builder is called with
ReservedSizes == {0, 3, 28, Huge}

\* register values W::new is called with
RegSamples(w) == {{}, AllOnes(w), {i \in AllOnes(w) : i % 2 = 1}}

\* raw values a field writer is called with
FtySamples(ty) ==
    IF ty = "bool" THEN {{}, {0}}
    ELSE {{}, AllOnes(TyBits(ty))}

Unwritten == [w |-> FALSE, v |-> {}]
Written(value) == [w |-> TRUE, v |-> value]

Init ==
    /\ phase = "build"
    /\ bitcount = 0
    /\ resolved = <<>>
    /\ BitfieldIdle
    /\ StructIdle

\* BitField::add_bit_field
AddBitField ==
    /\ phase = "build"
    /\ Len(fields) < MaxSlots
    /\ \E bitsize \in FieldSizes : \E evs \in EnumLists(bitsize) :
          fields' = add_bit_field(fields, bitsize, evs)
    /\ UNCHANGED <<phase, widthVars, structVars, gen, bits, initBits, last, op>>

\* BitField::add_reserved
AddReserved ==
    /\ phase = "build"
    /\ Len(fields) < MaxSlots
    /\ \E bitsize \in ReservedSizes : fields' = add_reserved(fields, bitsize)
    /\ UNCHANGED <<phase, widthVars, structVars, gen, bits, initBits, last, op>>

\* bitfield::render, by a generator built with or without overflow checks
Render ==
    /\ phase = "build"
    /\ \E checks \in BOOLEAN : gen' = render(fields, checks)
    /\ phase' = "rendered"
    /\ UNCHANGED <<widthVars, structVars, fields, bits, initBits, last, op>>

\* W::new of the emitted module
WNew ==
    /\ phase = "rendered"
    /\ Compiles(gen)
    /\ \E b \in RegSamples(gen.structsize) :
          /\ bits' = b
          /\ initBits' = b
    /\ last' = [i \in 1..Len(fields) |-> Unwritten]
    /\ op' = <<"new", 0>>
    /\ phase' = "w"
    /\ UNCHANGED <<widthVars, structVars, fields, gen>>

\* w.<field>().bits(value)
WriteBits ==
    /\ phase = "w"
    /\ \E i \in Named(gen) : \E value \in FtySamples(gen.accs[i].fty) :
          /\ bits' = W_bits(gen.accs[i], gen.structsize, bits, value)
          /\ last' = [last EXCEPT ![i] = Written(value)]
          /\ op' = <<"bits", i>>
    /\ UNCHANGED <<phase, widthVars, structVars, fields, gen, initBits>>

\* w.<field>().variant(v), which every emitted setter calls
WriteVariant ==
    /\ phase = "w"
    /\ \E i \in Named(gen) : \E k \in 1..Len(gen.accs[i].ev_values) :
          LET value == variant_into(gen.accs[i], k) IN
          /\ bits' = W_bits(gen.accs[i], gen.structsize, bits, value)
          /\ last' = [last EXCEPT ![i] = Written(value)]
          /\ op' = <<"variant", i, k>>
    /\ UNCHANGED <<phase, widthVars, structVars, fields, gen, initBits>>

\* w.<field>().bits(R::new(*w).<field>().bits): an unmodified read written back
WriteBack ==
    /\ phase = "w"
    /\ \E i \in Named(gen) :
          LET value == R_field(gen.accs[i], gen.structsize, bits) IN
          /\ bits' = W_bits(gen.accs[i], gen.structsize, bits, value)
          /\ last' = [last EXCEPT ![i] = Written(value)]
          /\ op' = <<"writeback", i>>
    /\ UNCHANGED <<phase, widthVars, structVars, fields, gen, initBits>>

Next ==
    \/ AddBitField
    \/ AddReserved
    \/ Render
    \/ WNew
    \/ WriteBits
    \/ WriteVariant
    \/ WriteBack

Spec == Init /\ [][Next]_vars

----------------------------------------------------------------------------
(* Specification of the layout render computes: the builder and render, no
   emitted code *)

\* BitField::add_bit_field or BitField::add_reserved; both push the slot
\* with BitField::add_field
AddSlot ==
    /\ phase = "build"
    /\ Len(fields) < MaxLayoutSlots
    /\ \/ \E bitsize \in FieldSizes : \E evs \in EnumLists(bitsize) :
             fields' = add_bit_field(fields, bitsize, evs)
       \/ \E bitsize \in ReservedSizes : fields' = add_reserved(fields, bitsize)
    /\ UNCHANGED <<phase, widthVars, structVars, gen, bits, initBits, last, op>>

NextLayout ==
    \/ AddSlot
    \/ Render

SpecLayout == Init /\ [][NextLayout]_vars

----------------------------------------------------------------------------
(* Specification of the enumerated values of one named field: the match of
   variant() and the conversion From<<Field>A> *)

\* bit sizes of the named field
EnumFieldSizes == {1, 3, 33}

\* the values add_enum_value is called with, in the order of the calls
DeclaredValues(bitsize) ==
    CASE bitsize = 1 -> {<<>>, <<0>>, <<0, 1>>, <<1, 0>>, <<0, 256>>}
      [] bitsize = 3 -> {<<>>, <<0, 1>>, <<5>>}
      [] OTHER -> {<<>>, <<1>>, <<0, 1>>}

\* BitField::add_bit_field, once per register
AddEnumField ==
    /\ phase = "build"
    /\ Len(fields) < MaxSlots
    /\ \A i \in 1..Len(fields) : fields[i].kind = "Reserved"
    /\ \E bitsize \in EnumFieldSizes : \E evs \in DeclaredValues(bitsize) :
          fields' = add_bit_field(fields, bitsize, evs)
    /\ UNCHANGED <<phase, widthVars, structVars, gen, bits, initBits, last, op>>

\* R::new(*w).<field>().variant(): the arm taken for the bits of the register
ReadVariant ==
    /\ phase = "w"
    /\ \E i \in Named(gen) :
          op' = <<"decode", i,
                  R_variant(gen.accs[i], R_field(gen.accs[i], gen.structsize, bits))>>
    /\ UNCHANGED <<phase, widthVars, structVars, fields, gen, bits, initBits, last>>

NextEnum ==
    \/ AddEnumField
    \/ AddReserved
    \/ Render
    \/ WNew
    \/ WriteVariant
    \/ ReadVariant

SpecEnum == Init /\ [][NextEnum]_vars

----------------------------------------------------------------------------
(* Specification of the alternatives registry *)

\* the structures a group is given as options
OptionPool(g) ==
    IF g = "address" THEN {"addr_none", "addr_short", "addr_extended"}
    ELSE {"pan_none", "pan_short"}

\* the structures inserted after the default
MoreSeqs(g) == UNION {[1..n -> OptionPool(g)] : n \in 0..(MaxOptions - 1)}

\* the option lists of a struct literal
OptionSeqs(g) == UNION {[1..n -> OptionPool(g)] : n \in 0..MaxOptions}

\* the orders in which the HashMap can yield its keys
Orders(map) ==
    LET keys == {g \in Groups : map[g].present}
    IN  {order \in [1..Cardinality(keys) -> keys] :
            \A a, b \in 1..Cardinality(keys) : order[a] = order[b] => a = b}

\* a value whose k-th byte is k
Pattern(nbytes) == from_le_bytes([k \in 1..nbytes |-> k])

\* values a member is set to
ValueSamples(sty) == {{}, Pattern(TyBits(sty) \div 8)}

\* instances of an option structure
Payloads(g) ==
    {v \in [1..Len(g.mems) -> {{}} \cup UNION {ValueSamples(g.mems[i].sty) : i \in 1..Len(g.mems)}] :
        \A i \in 1..Len(g.mems) : v[i] \in ValueSamples(g.mems[i].sty)}

\* the sinks write is called with
Rooms == {1, 3}
Sinks == {VecSink, BrokenSink} \cup {SliceSink(room) : room \in Rooms}

WidthIdle ==
    /\ bitcount = 0
    /\ resolved = <<>>

----------------------------------------------------------------------------
(* Specification of the registry API: AlternativeOptions::new, insert_type,
   Alternatives::insert and insert_new_option, nothing else *)

InitOptions ==
    /\ phase = "options"
    /\ WidthIdle
    /\ BitfieldIdle
    /\ StructIdle

\* AlternativeOptions::new
OptionsNew ==
    /\ \E g \in Groups : \E default \in OptionPool(g) :
          opts' = AlternativeOptions_new(g, default)
    /\ UNCHANGED <<phase, widthVars, bitfieldVars, registry, members, sgen, agen,
                   inst, out, rd>>

\* AlternativeOptions::insert_type
OptionsInsertType ==
    /\ opts.present
    /\ Len(opts.alternatives) < MaxOptions
    /\ \E structure \in OptionPool(opts.name) : opts' = insert_type(opts, structure)
    /\ UNCHANGED <<phase, widthVars, bitfieldVars, registry, members, sgen, agen,
                   inst, out, rd>>

\* Alternatives::insert, which takes the options by value
OptionsInsert ==
    /\ opts.present
    /\ registry' = Alternatives_insert(registry, opts)
    /\ opts' = NoOptions
    /\ UNCHANGED <<phase, widthVars, bitfieldVars, members, sgen, agen, inst, out, rd>>

\* Alternatives::insert_new_option
OptionsInsertNewOption ==
    /\ \E g \in Groups : \E default \in OptionPool(g) : \E more \in MoreSeqs(g) :
          registry' = insert_new_option(registry, g, default, more)
    /\ UNCHANGED <<phase, widthVars, bitfieldVars, opts, members, sgen, agen,
                   inst, out, rd>>

NextOptions ==
    \/ OptionsNew
    \/ OptionsInsertType
    \/ OptionsInsert
    \/ OptionsInsertNewOption

SpecOptions == InitOptions /\ [][NextOptions]_vars

----------------------------------------------------------------------------
(* Specification of render_alternatives and the code it emits *)

InitAlt ==
    /\ phase = "registry"
    /\ WidthIdle
    /\ BitfieldIdle
    /\ StructIdle

\* Alternatives::insert of options built by AlternativeOptions::new and
\* insert_type
Insert ==
    /\ phase = "registry"
    /\ \E g \in Groups : \E default \in OptionPool(g) : \E more \in MoreSeqs(g) :
          registry' = Alternatives_insert(registry,
                          insert_types(AlternativeOptions_new(g, default), more))
    /\ UNCHANGED <<phase, widthVars, bitfieldVars, opts, members, sgen, agen, inst, out, rd>>

\* Alternatives::insert_new_option
InsertNewOption ==
    /\ phase = "registry"
    /\ \E g \in Groups : \E default \in OptionPool(g) : \E more \in MoreSeqs(g) :
          registry' = insert_new_option(registry, g, default, more)
    /\ UNCHANGED <<phase, widthVars, bitfieldVars, opts, members, sgen, agen, inst, out, rd>>

\* Alternatives::insert of options written as a struct literal: name, default
\* and alternatives are public fields
InsertLiteral ==
    /\ phase = "registry"
    /\ \E g \in Groups : \E default \in OptionPool(g) : \E alternatives \in OptionSeqs(g) :
          registry' = Alternatives_insert(registry,
                          [present |-> TRUE, name |-> g, default |-> default,
                           alternatives |-> alternatives])
    /\ UNCHANGED <<phase, widthVars, bitfieldVars, opts, members, sgen, agen, inst, out, rd>>

\* render_alternatives
RenderAlternatives ==
    /\ phase = "registry"
    /\ \E order \in Orders(registry) : agen' = render_alternatives(registry, order)
    /\ phase' = "rendered"
    /\ UNCHANGED <<widthVars, bitfieldVars, opts, registry, members, sgen, inst, out, rd>>

\* render_alternatives called once more on the registry, whose HashMap may
\* now yield its keys in another order
RenderAlternativesAgain ==
    /\ phase = "rendered"
    /\ \E order \in Orders(registry) : agen' = render_alternatives(registry, order)
    /\ UNCHANGED <<phase, widthVars, bitfieldVars, opts, registry, members, sgen, inst, out, rd>>

\* <Group>A::default()
UnionDefault ==
    /\ phase = "rendered"
    /\ agen.status = "ok"
    /\ \E j \in 1..Len(agen.items) :
          /\ AltCompiles(agen.items[j])
          /\ inst' = union_default(agen.items[j])
          /\ op' = <<"default", j>>
    /\ phase' = "union"
    /\ UNCHANGED <<widthVars, fields, gen, bits, initBits, last,
                   opts, registry, members, sgen, agen, out, rd>>

\* <Group>A::<Option>(v), v an instance of the option structure
UnionOf ==
    /\ phase = "rendered"
    /\ agen.status = "ok"
    /\ \E j \in 1..Len(agen.items) :
          /\ AltCompiles(agen.items[j])
          /\ \E k \in 1..Len(agen.items[j].entries) :
             \E v \in Payloads(LibGen(agen.items[j].entries[k].struct)) :
                inst' = [case |-> agen.items[j].entries[k].case, payload |-> v]
          /\ op' = <<"of", j>>
    /\ phase' = "union"
    /\ UNCHANGED <<widthVars, fields, gen, bits, initBits, last,
                   opts, registry, members, sgen, agen, out, rd>>

\* <Group>A::write
UnionWrite ==
    /\ phase = "union"
    /\ \E sink \in Sinks :
          out' = WriteResult(sink, union_write(agen.items[op[2]], inst, sink))
    /\ phase' = "uwritten"
    /\ UNCHANGED <<widthVars, bitfieldVars, opts, registry, members, sgen, agen, inst, rd>>

\* <Group>A::read_<option> on the bytes the sink holds
UnionRead ==
    /\ phase = "uwritten"
    /\ out.ok
    /\ \E k \in 1..Len(agen.items[op[2]].entries) :
          /\ rd' = union_read(agen.items[op[2]], k, out.sink.data)
          /\ op' = <<"read", op[2], k>>
    /\ phase' = "uread"
    /\ UNCHANGED <<widthVars, fields, gen, bits, initBits, last,
                   opts, registry, members, sgen, agen, inst, out>>

NextAlt ==
    \/ RenderAlternativesAgain
    \/ Insert
    \/ InsertNewOption
    \/ InsertLiteral
    \/ RenderAlternatives
    \/ UnionDefault
    \/ UnionOf
    \/ UnionWrite
    \/ UnionRead

SpecAlt == InitAlt /\ [][NextAlt]_vars

----------------------------------------------------------------------------
(* Specification of the structure generator and of the structures it emits *)

\* a byte width whose eightfold wraps u32
BigBytes == 2^29 + 1

\* byte widths add_prim_field is called with
MemberBytes == {0, 1, 2, 3, 8, BigBytes}

\* byte widths add_bitfield is called with
BitfieldBytes == {2}

\* main.rs render_mac: an empty structure or mhr, with no registry or the
\* registry of the MAC header
InitStruct ==
    /\ phase = "members"
    /\ WidthIdle
    /\ BitfieldIdle
    /\ members \in {<<>>, Mhr}
    /\ opts = NoOptions
    /\ registry \in {Alternatives_new, AddressRegistry, MacRegistry, LiteralRegistry}
    /\ sgen = NotRenderedStruct
    /\ agen = NotRenderedAlts
    /\ inst = <<>>
    /\ out = NoWrite
    /\ rd = NoRead

\* Structure::add_prim_field
AddPrimField ==
    /\ phase = "members"
    /\ Len(members) < MaxMembers
    /\ \E bytes \in MemberBytes : members' = add_prim_field(members, bytes)
    /\ UNCHANGED <<phase, widthVars, bitfieldVars, opts, registry, sgen, agen, inst, out, rd>>

\* Structure::add_bitfield
AddBitfield ==
    /\ phase = "members"
    /\ Len(members) < MaxMembers
    /\ \E bytes \in BitfieldBytes : members' = add_bitfield(members, bytes)
    /\ UNCHANGED <<phase, widthVars, bitfieldVars, opts, registry, sgen, agen, inst, out, rd>>

\* Structure::add_alt_field, handed the options of a group of the MAC header
AddAltField ==
    /\ phase = "members"
    /\ Len(members) < MaxMembers
    /\ \E g \in Groups : members' = add_alt_field(members, MacRegistry[g])
    /\ UNCHANGED <<phase, widthVars, bitfieldVars, opts, registry, sgen, agen, inst, out, rd>>

\* SimpleStructure::new
SimpleStructureNew ==
    /\ phase = "members"
    /\ members = <<>>
    /\ registry = Alternatives_new
    /\ \E bytes \in MemberBytes : members' = <<SimpleStructure_new(bytes)>>
    /\ phase' = "simple"
    /\ UNCHANGED <<widthVars, bitfieldVars, opts, registry, sgen, agen, inst, out, rd>>

\* render_simple, by a generator built with or without overflow checks
RenderSimple ==
    /\ phase = "simple"
    /\ \E checks \in BOOLEAN : sgen' = render_simple(members[1], checks)
    /\ phase' = "rendered"
    /\ UNCHANGED <<widthVars, bitfieldVars, opts, registry, members, agen, inst, out, rd>>

\* render_with_alts, by a generator built with or without overflow checks
RenderWithAlts ==
    /\ phase = "members"
    /\ \E checks \in BOOLEAN : sgen' = render_with_alts(members, registry, checks)
    /\ phase' = "rendered"
    /\ UNCHANGED <<widthVars, bitfieldVars, opts, registry, members, agen, inst, out, rd>>

\* <Name>::new() of a structure without alternative members
StructNew ==
    /\ phase = "rendered"
    /\ StructCompiles(sgen)
    /\ ~sgen.has_alt
    /\ inst' = struct_new(sgen)
    /\ op' = <<"new", 0>>
    /\ phase' = "inst"
    /\ UNCHANGED <<widthVars, fields, gen, bits, initBits, last,
                   opts, registry, members, sgen, agen, out, rd>>

\* s.<member>().set(v) of a primitive member
PrimSet ==
    /\ phase = "inst"
    /\ ~sgen.has_alt
    /\ \E i \in 1..Len(sgen.mems) : \E v \in ValueSamples(sgen.mems[i].sty) :
          /\ sgen.mems[i].kind = "prim"
          /\ inst' = [inst EXCEPT ![i] = v]
          /\ op' = <<"set", i>>
    /\ UNCHANGED <<phase, widthVars, fields, gen, bits, initBits, last,
                   opts, registry, members, sgen, agen, out, rd>>

\* s.set(v) of a simple structure
SimpleSet ==
    /\ phase = "inst"
    /\ Len(sgen.mems) = 1
    /\ sgen.mems[1].kind = "simple"
    /\ \E v \in ValueSamples(sgen.mems[1].sty) :
          /\ inst' = [inst EXCEPT ![1] = v]
          /\ op' = <<"set", 1>>
    /\ UNCHANGED <<phase, widthVars, fields, gen, bits, initBits, last,
                   opts, registry, members, sgen, agen, out, rd>>

\* s.<member>().modify(f) of a bitfield member: the register f leaves
BitfieldModify ==
    /\ phase = "inst"
    /\ ~sgen.has_alt
    /\ \E i \in 1..Len(sgen.mems) : \E v \in ValueSamples(sgen.mems[i].sty) :
          /\ sgen.mems[i].kind = "bitfield"
          /\ inst' = [inst EXCEPT ![i] = v]
          /\ op' = <<"modify", i>>
    /\ UNCHANGED <<phase, widthVars, fields, gen, bits, initBits, last,
                   opts, registry, members, sgen, agen, out, rd>>

\* <Name>Generic::default() of a structure with alternative members
GenericDefault ==
    /\ phase = "rendered"
    /\ StructCompiles(sgen)
    /\ sgen.has_alt
    /\ inst' = generic_default(sgen, registry)
    /\ op' = <<"default", 0>>
    /\ phase' = "inst"
    /\ UNCHANGED <<widthVars, fields, gen, bits, initBits, last,
                   opts, registry, members, sgen, agen, out, rd>>

\* the emitted write of the instance at hand
StructWrite ==
    /\ phase = "inst"
    /\ IF op[1] = "default" THEN sgen.funs.generic_write ELSE sgen.funs.write
    /\ \E sink \in Sinks :
          out' = WriteResult(sink, struct_write(sgen, registry, inst, sink))
    /\ phase' = "written"
    /\ UNCHANGED <<widthVars, bitfieldVars, opts, registry, members, sgen, agen, inst, rd>>

\* the emitted read on the bytes the sink holds
StructRead ==
    /\ phase = "written"
    /\ sgen.funs.read
    /\ out.ok
    /\ rd' = struct_read(sgen, out.sink.data)
    /\ phase' = "read"
    /\ UNCHANGED <<widthVars, bitfieldVars, opts, registry, members, sgen, agen, inst, out>>

\* the emitted read on a stream that ends after the first n of those bytes
StructReadShort ==
    /\ phase = "written"
    /\ sgen.funs.read
    /\ out.ok
    /\ \E n \in 0..(Len(out.sink.data) - 1) :
          /\ rd' = struct_read(sgen, SubSeq(out.sink.data, 1, n))
          /\ op' = <<"short", n>>
    /\ phase' = "readshort"
    /\ UNCHANGED <<widthVars, fields, gen, bits, initBits, last,
                   opts, registry, members, sgen, agen, inst, out>>

NextStruct ==
    \/ SimpleStructureNew
    \/ RenderSimple
    \/ SimpleSet
    \/ StructReadShort
    \/ AddPrimField
    \/ AddBitfield
    \/ AddAltField
    \/ RenderWithAlts
    \/ StructNew
    \/ PrimSet
    \/ BitfieldModify
    \/ GenericDefault
    \/ StructWrite
    \/ StructRead

SpecStruct == InitStruct /\ [][NextStruct]_vars

----------------------------------------------------------------------------
(* Claims on the emitted reader and writer *)

\* the bits of reg outside [offset, offset + width) of slot i, the mask
\* being the width low bits: reg & ~(mask << offset)
Outside(i, reg) ==
    LET acc == gen.accs[i]
    IN And(reg, Not(Shl(AllOnes(acc.bitsize), acc.field_offset[2], gen.structsize),
                    gen.structsize))

\* C1: a call of a field writer (bits, and the setters that go through it)
\* leaves every register bit outside the field's range unchanged.
C1_WriteKeepsOutsideBits ==
    [][\A i \in Named(gen) :
          (phase = "w" /\ phase' = "w" /\ op'[2] = i)
              => Outside(i, bits') = Outside(i, bits)]_vars

\* a field that does not sit at bit 0 has been written with all ones into a
\* register that was zero
C1_Witness ==
    /\ phase = "w"
    /\ op[1] = "bits"
    /\ initBits = {}
    /\ gen.accs[op[2]].field_offset[2] > 0
    /\ gen.accs[op[2]].bitsize \in {3, 33}
    /\ last[op[2]].v = AllOnes(TyBits(gen.accs[op[2]].fty))
    /\ bits # {}

\* C2: writing back to a field the value the reader extracts for it gives
\* the same register value.
C2_WriteBackIsIdentity ==
    [][(phase = "w" /\ phase' = "w" /\ op'[1] = "writeback") => bits' = bits]_vars

\* a field above bit 0 of a register with zero and one bits was written back
C2_Witness ==
    /\ phase = "w"
    /\ op[1] = "writeback"
    /\ gen.accs[op[2]].field_offset[2] > 0
    /\ last[op[2]].v # {}
    /\ bits # {}
    /\ bits # AllOnes(gen.structsize)

\* the low width bits of a raw value, as the field's type holds them
LowBits(acc, value) == And(value, AllOnes(acc.bitsize))

\* the schema type:3 bits {Beacon=0, Data=1}, secure:1 bit, the remaining
\* bits of the 8-bit register reserved
IsTypeSecure ==
    /\ Len(fields) >= 2
    /\ fields[1] = Field(3, <<0, 1>>)
    /\ fields[2] = Field(1, <<0, 1>>)
    /\ gen.structsize = 8

\* C3: after any sequence of writer calls each field reads back the low
\* width bits of the value last written to it, a field never written reads
\* what it read in the initial register; type=Data then secure=1 on a zero
\* register gives 9 and type reads as Data.
C3_FieldsReadLastWritten ==
    phase = "w" =>
        /\ \A i \in Named(gen) :
              R_field(gen.accs[i], gen.structsize, bits) =
                  IF last[i].w THEN LowBits(gen.accs[i], last[i].v)
                  ELSE R_field(gen.accs[i], gen.structsize, initBits)
        /\ (/\ IsTypeSecure
            /\ initBits = {}
            /\ last[1] = Written({0})
            /\ last[2] = Written({0}))
               => /\ bits = {0, 3}
                  /\ R_variant(gen.accs[1],
                               R_field(gen.accs[1], gen.structsize, bits)) = 2

----------------------------------------------------------------------------
(* Claims on the Width Resolver *)

\* the integer widths the target language has
Supported == {1, 8, 16, 32, 64}

\* C4: for a bit count of 1..64 to_ty_width gives the smallest supported
\* width that holds it and to_ty the type of that width; above 64 both fail.
C4_SmallestWidth ==
    phase = "resolved" =>
        /\ bitcount \in 1..64 =>
              /\ resolved[1] = Ok(Min({w \in Supported : w >= bitcount}))
              /\ resolved[2].ok
              /\ TyBits(resolved[2].v) = resolved[1].v
        /\ bitcount > 64 => (~resolved[1].ok /\ ~resolved[2].ok)

\* 8 bits resolved to a byte, and 65 bits refused
C4_Witness ==
    /\ phase = "resolved"
    /\ \/ bitcount = 8 /\ resolved = <<Ok(8), Ok("u8")>>
       \/ bitcount = 65 /\ resolved = <<ErrWidth, ErrTy>>

----------------------------------------------------------------------------
(* Claims on the emitted structures *)

\* the little-endian bytes of the fixed members ms of an instance v, member
\* after member, each of its declared byte width
RECURSIVE ExpectedBytes(_, _, _)
ExpectedBytes(ms, v, i) ==
    IF i > Len(ms) THEN <<>>
    ELSE [k \in 1..ms[i].bytes |-> BitsNat({j \in 0..7 : 8 * (k - 1) + j \in v[i]})]
         \o ExpectedBytes(ms, v, i + 1)

\* C5: for a structure without alternative members the emitted read, applied
\* to the bytes the emitted write produced for an instance, returns that
\* instance member by member and leaves no byte over.
C5_ReadOfWriteIsIdentity ==
    phase = "read" =>
        /\ rd.ok
        /\ rd.v = inst
        /\ rd.rest = <<>>

\* the round trip of C5 on a sink that takes every byte it is offered
RoundTripOnVec ==
    (phase = "read" /\ out.into = VecSink) =>
        /\ rd.ok
        /\ rd.v = inst
        /\ rd.rest = <<>>
        /\ out.sink.data = ExpectedBytes(members, inst, 1)

\* C6: whatever the sink, a write of a structure without alternative members
\* that returned Ok has appended the members' little-endian bytes in
\* declaration order, the sum of the declared byte widths in all.
C6_OkWriteAppendsEveryByte ==
    (phase \in {"written", "read"} /\ ~sgen.has_alt /\ out.ok) =>
        out.sink.data = out.into.data \o ExpectedBytes(members, inst, 1)

RECURSIVE SumBytes(_, _)
SumBytes(ms, i) == IF i > Len(ms) THEN 0 ELSE ms[i].bytes + SumBytes(ms, i + 1)

\* the bytes of the default instance of the flattened form: zeros for the
\* fixed members, the zero bytes of the declared default option for the others
RECURSIVE ExpectedDefaultBytes(_, _, _)
ExpectedDefaultBytes(ms, map, i) ==
    IF i > Len(ms) THEN <<>>
    ELSE LET n == IF ms[i].kind = "alt"
                  THEN SumBytes(Library(map[ms[i].alternatives].default), 1)
                  ELSE ms[i].bytes
         IN  [k \in 1..n |-> 0] \o ExpectedDefaultBytes(ms, map, i + 1)

\* C9: the default instance of the flattened form of a structure with
\* alternative members serializes to the bytes of the fixed members and of
\* the default options in declaration order; for mhr these are 3 bytes.
C9_DefaultSerialization ==
    (phase = "written" /\ sgen.has_alt /\ out.ok) =>
        /\ out.sink.data = out.into.data \o ExpectedDefaultBytes(members, registry, 1)
        /\ members = Mhr => Len(out.sink.data) = 3

\* the default serialization of C9 on a sink that takes every byte and for
\* fixed members of 1, 2, 4 or 8 bytes
DefaultSerializationOnVec ==
    (/\ phase = "written" /\ sgen.has_alt /\ out.into = VecSink
     /\ \A i \in 1..Len(members) : members[i].kind # "alt" => members[i].bytes \in {1, 2, 4, 8})
        => /\ out.ok
           /\ out.sink.data = ExpectedDefaultBytes(members, registry, 1)
           /\ members = Mhr => out.sink.data = <<0, 0, 0>>

----------------------------------------------------------------------------
(* Claims on the emitted tagged unions *)

\* the group of the union at hand
UnionItem == agen.items[op[2]]

\* C7: <Group>A::default() is the case of the default the options of the
\* group declare, wrapping the default instance of that option.
C7_DefaultIsDeclaredDefault ==
    (phase = "union" /\ op[1] = "default") =>
        /\ inst.case = PascalCase(registry[UnionItem.key].default)
        /\ inst.payload = struct_new(LibGen(PascalCase(registry[UnionItem.key].default)))

\* C7 for options built by AlternativeOptions::new and insert_type, whose
\* list starts with the default
DefaultIsDeclaredDefaultWhenHead ==
    (/\ phase = "union" /\ op[1] = "default"
     /\ registry[UnionItem.key].alternatives[1] = registry[UnionItem.key].default)
        => inst.case = PascalCase(registry[UnionItem.key].default)

\* C8: a rendered group has one case and one read_<option> per option of its
\* list, in the order of the list; write on an X-case instance leaves the
\* sink as the write of X itself leaves it, with no byte besides; read_<X>
\* decodes as the read of X does and wraps the result in case X.
C8_UnionWriteIsOptionWrite ==
    /\ agen.status = "ok" =>
          \A j \in 1..Len(agen.items) :
              LET item == agen.items[j]
                  alts == registry[item.key].alternatives
              IN  /\ Len(item.entries) = Len(alts)
                  /\ \A k \in 1..Len(alts) :
                        /\ item.entries[k].case = PascalCase(alts[k])
                        /\ item.entries[k].struct = PascalCase(alts[k])
                        /\ item.entries[k].read = <<"read_", alts[k]>>
    /\ phase \in {"uwritten", "uread"} =>
          LET own == option_write(LibGen(inst.case), inst.payload, out.into)
          IN  /\ out.ok = own.ok
              /\ out.sink = own.sink
              /\ (out.into = VecSink) =>
                    out.sink.data = ExpectedBytes(Library(StructOfIdent(inst.case)),
                                                  inst.payload, 1)
    /\ phase = "uread" =>
          LET entry == UnionItem.entries[op[3]]
              own == struct_read(LibGen(entry.struct), out.sink.data)
          IN  /\ rd.ok = own.ok
              /\ rd.ok => (rd.v.case = entry.case /\ rd.v.payload = own.v)
              /\ (entry.case = inst.case /\ out.into = VecSink) => (rd.ok /\ rd.v = inst)

\* a short address of bytes 1, 2 written as the second option of its group
\* and read back by read_addr_short
C8_Witness ==
    /\ phase = "uread"
    /\ Len(UnionItem.entries) = 2
    /\ UnionItem.entries[2].case = "AddrShort"
    /\ inst = [case |-> "AddrShort", payload |-> <<Pattern(2)>>]
    /\ out.into = VecSink
    /\ out.sink.data = <<1, 2>>
    /\ op[3] = 2
    /\ rd.ok
    /\ rd.v = inst

----------------------------------------------------------------------------
(* Claims on bitfield render *)

\* a width the Width Resolver refuses
Unresolvable(bitsize) == bitsize = 0 \/ bitsize > 64

RECURSIVE SumSmall(_, _)
SumSmall(fs, i) == IF i = 0 THEN 0 ELSE fs[i].bitsize + SumSmall(fs, i - 1)

\* the total of the slot widths is none of 1..64
TotalUnresolvable(fs) ==
    \/ \E i \in 1..Len(fs) : fs[i].bitsize > 64
    \/ SumSmall(fs, Len(fs)) \notin 1..64

\* C10 as stated: render returns a width error whenever a slot, named or
\* reserved, has an unresolvable width or the total is unresolvable.
C10_AnySlotWidthError ==
    phase = "rendered" =>
        ((\/ \E i \in 1..Len(fields) : Unresolvable(fields[i].bitsize)
          \/ TotalUnresolvable(fields))
            => gen.status = "err")

----------------------------------------------------------------------------
(* Claims on structure render *)

\* the alternative members of a structure
AltMembers(ms) == {i \in 1..Len(ms) : ms[i].kind = "alt"}

\* the members render_member accepts in every build
FixedMembersFit(ms) ==
    \A i \in 1..Len(ms) : ms[i].kind # "alt" => ms[i].bytes \in {1, 2, 3, 4, 5, 6, 7, 8}

\* C11: render_with_alts (and render, which hands it the empty registry)
\* returns an error and no fragment whenever an alternative member names a
\* group absent from the registry, and resolves every alternative member
\* whose group was inserted: with every group present and every fixed member
\* of a width that fits, the fragment names each alternative member with the
\* default of its group.
C11_UnknownGroupIsError ==
    /\ phase = "rendered" =>
          LET absent == {i \in AltMembers(members) :
                            ~registry[members[i].alternatives].present}
          IN  /\ absent # {} => sgen = StructErr
              /\ (absent = {} /\ FixedMembersFit(members)) =>
                    /\ sgen.status = "ok"
                    /\ sgen.has_alt = (AltMembers(members) # {})
                    /\ Len(sgen.templ) = Cardinality(AltMembers(members))
                    /\ \A k \in 1..Len(sgen.templ) :
                          /\ sgen.templ[k] \in AltMembers(members)
                          /\ sgen.default_templ[k] =
                                PascalCase(registry[members[sgen.templ[k]].alternatives].default)
    /\ \A ident \in {"AddrShort", "PanNone"} : LibGen(ident).status = "ok"
    /\ (phase = "members" /\ AltMembers(members) # {}) =>
          render_structure(members) = StructErr

\* a panid member rendered against the registry that holds address only
C11_Witness ==
    /\ phase = "rendered"
    /\ registry = AddressRegistry
    /\ Len(members) = 2
    /\ members[1].kind = "alt" /\ members[1].alternatives = "address"
    /\ members[2].kind = "alt" /\ members[2].alternatives = "panid"
    /\ sgen = StructErr

\* the stream the emitted read was handed
ReadStream ==
    IF phase = "readshort" THEN SubSeq(out.sink.data, 1, op[2]) ELSE out.sink.data

\* the streams that end before the last byte of an option structure
ShortStreams(ident) ==
    {[k \in 1..n |-> k] : n \in 0..(SumBytes(Library(StructOfIdent(ident)), 1) - 1)}

\* C12: the emitted read of a structure or of a simple structure, and each
\* read_<option>, returns the error and no structure whenever the stream
\* holds fewer bytes than the sum of the declared member byte widths.
C12_ShortStreamIsError ==
    /\ (phase \in {"read", "readshort"} /\ Len(ReadStream) < SumBytes(members, 1))
          => rd = NoRead
    /\ \A g \in Groups :
          LET item == AlternativesItem(g, MacRegistry[g])
          IN  \A k \in 1..Len(item.entries) :
                \A stream \in ShortStreams(item.entries[k].struct) :
                    union_read(item, k, stream) = NoRead

\* a structure of two 2-byte members read from a stream of three bytes: the
\* first member is there, the second is short
C12_Witness ==
    /\ phase = "readshort"
    /\ Len(members) = 2
    /\ members[1].bytes = 2
    /\ members[2].bytes = 2
    /\ out.into = VecSink
    /\ Len(out.sink.data) = 4
    /\ op[2] = 3
    /\ rd = NoRead

----------------------------------------------------------------------------
(* Claims on render_alternatives *)

\* C13 as stated: two calls of render_alternatives on an equal registry
\* produce identical fragments, the order of the items of a registry of two
\* or more groups included.
C13_RenderIsDeterministic ==
    [][(phase = "rendered" /\ phase' = "rendered") => agen' = agen]_vars

----------------------------------------------------------------------------
(* Claims on every engine *)

\* C14 as stated: every call of bitfield render, render_with_alts,
\* render_simple or render_alternatives returns a fragment or an error
\* value; none aborts through an arithmetic overflow or an index out of range.
C14_NoCallAborts ==
    /\ gen.status # "panic"
    /\ sgen.status # "panic"
    /\ agen.status # "panic"

----------------------------------------------------------------------------
(* Claims on the registry *)

\* the default of the options is one of its options
DefaultListed(options) ==
    options.present =>
        \E k \in 1..Len(options.alternatives) : options.alternatives[k] = options.default

\* C15: in every AlternativeOptions value built by AlternativeOptions::new
\* and insert_type calls, and in every registry entry stored from such a
\* value by Alternatives::insert or insert_new_option, the default option
\* name appears in the option list.
C15_DefaultIsListed ==
    /\ DefaultListed(opts)
    /\ \A g \in Groups : DefaultListed(registry[g])

\* both groups stored, address through insert with a second option whose
\* default is not the first of the pool, and options for panid under way
C15_Witness ==
    /\ registry["address"].present
    /\ registry["address"].default = "addr_short"
    /\ registry["address"].alternatives = <<"addr_short", "addr_none">>
    /\ registry["panid"].present
    /\ opts.present
    /\ opts.name = "panid"
    /\ Len(opts.alternatives) = 2

----------------------------------------------------------------------------
(* Claims on the layout of the register *)

\* the sum of the widths of the slots before slot i, as the limbs of the
\* exact sum: the high limb is not reduced
RECURSIVE LimbSum(_, _)
LimbSum(fs, i) ==
    IF i = 1 THEN <<0, 0>>
    ELSE LET p == LimbSum(fs, i - 1)
             w == fs[i - 1].bitsize
         IN <<p[1] + (w \div Limb), p[2] + (w % Limb)>>

ExactOffset(fs, i) ==
    LET s == LimbSum(fs, i) IN <<s[1] + (s[2] \div Limb), s[2] % Limb>>

\* bits [offset, offset + width) of the register, for the i-th slot
FieldRange(fs, i) ==
    LET offset == SumSmall(fs, i - 1)
    IN  offset..(offset + fs[i].bitsize - 1)

----------------------------------------------------------------------------
(* Claims on the tokens of a named field *)

\* C17 as stated: for every named field of width w in 1..64 the mask emitted
\* into the reader and the writer has exactly the w low bits set.
C17_MaskIsLowBits ==
    gen.status = "ok" =>
        \A i \in Named(gen) :
            LitBits(gen.accs[i].field_mask) = AllOnes(gen.accs[i].bitsize)

\* the same without the fields of 64 bits
MaskIsLowBitsBelow64 ==
    gen.status = "ok" =>
        \A i \in Named(gen) :
            gen.accs[i].bitsize < 64 =>
                LitBits(gen.accs[i].field_mask) = AllOnes(gen.accs[i].bitsize)

\* the raw values the arms of variant() match
DeclaredRaw(acc) == {acc.ev_variants[k].val : k \in 1..Len(acc.ev_variants)}

\* the declared values cover fewer than 2^w raw values
CoversFewer(acc) ==
    \/ acc.bitsize > 8
    \/ Cardinality(DeclaredRaw(acc)) < 2^acc.bitsize

\* C18 as stated: whenever the declared values of a named field of width w
\* cover fewer than 2^w raw values, variant() has the fallback arm, which is
\* taken for every raw value that matches no declared value; a declared
\* value is matched by equality with the raw bits.
C18_FallbackWhenNotCovered ==
    /\ gen.status = "ok" =>
          \A i \in Named(gen) : CoversFewer(gen.accs[i]) => gen.accs[i].fallback
    /\ (phase = "w" /\ op[1] = "decode") =>
          LET acc == gen.accs[op[2]]
              raw == R_field(acc, gen.structsize, bits)
          IN  IF raw \in DeclaredRaw(acc)
              THEN op[3] # 0 /\ acc.ev_variants[op[3]].val = raw
              ELSE op[3] = 0 /\ acc.fallback

\* the same for the fields of at most 32 bits
FallbackWhenNotCoveredUpTo32 ==
    gen.status = "ok" =>
        \A i \in Named(gen) :
            (gen.accs[i].bitsize <= 32 /\ CoversFewer(gen.accs[i]))
                => gen.accs[i].fallback

\* the raw value of a 1-bit field: false is {}, true is {0}
RawBool(b) == IF b THEN {0} ELSE {}

\* C19 as stated: for a field of width 1 the reader yields false exactly when
\* the bit of the field is 0 in the register, raw false decodes to the
\* variant declared with value 0 and raw true to the other, and converting a
\* variant to the raw value gives false for value 0 and true for any nonzero
\* value.
C19_OneBitFieldIsBoolean ==
    /\ phase = "w" =>
          \A i \in Named(gen) :
             gen.accs[i].bitsize = 1 =>
                R_field(gen.accs[i], gen.structsize, bits)
                    = RawBool(gen.accs[i].field_offset[2] \in bits)
    /\ (phase = "w" /\ op[1] = "decode" /\ gen.accs[op[2]].bitsize = 1 /\ op[3] # 0) =>
          LET acc == gen.accs[op[2]]
          IN  (acc.ev_values[op[3]] # 0) = (acc.field_offset[2] \in bits)
    /\ (phase = "w" /\ op[1] = "variant" /\ gen.accs[op[2]].bitsize = 1) =>
          LET acc == gen.accs[op[2]]
          IN  /\ last[op[2]].v = RawBool(acc.ev_values[op[3]] # 0)
              /\ (acc.field_offset[2] \in bits) = (acc.ev_values[op[3]] # 0)

\* the same for declared values below 256
OneBitFieldIsBooleanBelow256 ==
    (\A i \in 1..Len(fields) : \A k \in 1..Len(fields[i].evs) : fields[i].evs[k] < 256)
        => C19_OneBitFieldIsBoolean

----------------------------------------------------------------------------
(* Claims on the routines of a structure *)

\* C20: render_with_alts emits read on a structure if and only if the
\* structure has no alternative members; a structure with an alternative
\* member gets no read and no write on its parameterized form, and its only
\* write is the one on the flattened form, marked unsafe.
C20_ReadIffNoAlternatives ==
    /\ sgen.status = "ok" =>
          LET alt == AltMembers(members) # {}
          IN  /\ sgen.funs.read = ~alt
              /\ alt => /\ ~sgen.funs.write
                        /\ sgen.funs.generic
                        /\ sgen.funs.generic_write
                        /\ ~sgen.funs.generic_read
                        /\ sgen.funs.write_unsafe
              /\ ~alt => /\ sgen.funs.write
                         /\ ~sgen.funs.write_unsafe
                         /\ ~sgen.funs.generic
                         /\ ~sgen.funs.generic_write
    /\ phase \in {"read", "readshort"} => AltMembers(members) = {}
    /\ (phase = "written" /\ AltMembers(members) # {}) =>
          inst = generic_default(sgen, registry)

\* mhr rendered against the registry of render_mac and its flattened
\* default written to a Vec
C20_Witness ==
    /\ phase = "written"
    /\ members = Mhr
    /\ registry = MacRegistry
    /\ sgen.funs.generic_write
    /\ ~sgen.funs.read
    /\ out.into = VecSink
    /\ out.ok

\* C21: the flattened form and the default type alias are emitted exactly
\* when the structure has an alternative member; the structure has one type
\* parameter per alternative member in declaration order, and the alias binds
\* the k-th parameter to the declared default of the group of the k-th
\* alternative member.
C21_FlattenedAndAliasIffAlternatives ==
    sgen.status = "ok" =>
        LET alts == AltMembers(members)
            alias == default_alias(sgen)
        IN  /\ sgen.funs.generic = (alts # {})
            /\ alias.emitted = (alts # {})
            /\ Len(sgen.templ) = Cardinality(alts)
            /\ \A k \in 1..Len(sgen.templ) : sgen.templ[k] \in alts
            /\ \A k, l \in 1..Len(sgen.templ) : k < l => sgen.templ[k] < sgen.templ[l]
            /\ Len(alias.args) = Len(sgen.templ)
            /\ \A k \in 1..Len(alias.args) :
                  alias.args[k] =
                      PascalCase(registry[members[sgen.templ[k]].alternatives].default)

\* members of panid and address rendered against the registry whose
\* address default is not the head of its list
C21_Witness ==
    /\ phase = "rendered"
    /\ registry = LiteralRegistry
    /\ Len(members) = 2
    /\ members[1].kind = "alt" /\ members[1].alternatives = "panid"
    /\ members[2].kind = "alt" /\ members[2].alternatives = "address"
    /\ sgen.status = "ok"
    /\ sgen.templ = <<1, 2>>
    /\ default_alias(sgen) = [emitted |-> TRUE, args |-> <<"PanNone", "AddrShort">>]
    /\ sgen.funs.generic

\* the fixed members whose byte width is none of 1, 2, 4, 8
OddWidthMembers(ms) ==
    {i \in 1..Len(ms) : ms[i].kind # "alt" /\ ms[i].bytes \notin {1, 2, 4, 8}}

\* C22 as stated: render_with_alts and render_simple accept a primitive or
\* bitfield-backed member only when its byte width is 1, 2, 4 or 8 and return
\* a width error for every other byte width, so that the emitted member type
\* has exactly the declared number of bytes.
C22_OnlyPowerOfTwoByteWidths ==
    phase = "rendered" =>
        /\ OddWidthMembers(members) # {} => sgen.status = "err"
        /\ sgen.status = "ok" =>
              \A i \in 1..Len(members) :
                  members[i].kind # "alt" =>
                      TyBits(sgen.mems[i].sty) \div 8 = members[i].bytes

\* the same for structures whose fixed members have 0, 1, 2, 4 or 8 bytes
PowerOfTwoOrRefused ==
    (phase = "rendered"
        /\ \A i \in 1..Len(members) : members[i].bytes \in {0, 1, 2, 4, 8})
        => /\ OddWidthMembers(members) # {} => sgen.status = "err"
           /\ sgen.status = "ok" =>
                 \A i \in 1..Len(members) :
                     members[i].kind # "alt" =>
                         TyBits(sgen.mems[i].sty) \div 8 = members[i].bytes

----------------------------------------------------------------------------
(* Claims on the ranges of the fields *)

\* a <= b on u32
U32Leq(a, b) == a[1] < b[1] \/ (a[1] = b[1] /\ a[2] <= b[2])

\* offset + width of the i-th slot, a named field, and whether it left u32
RangeEnd(i) == U32Add(gen.accs[i].field_offset, U32(gen.accs[i].bitsize))

\* C23 as stated: for every schema render accepts, the bit ranges
\* [offset, offset + width) of two distinct fields are disjoint and every
\* range lies inside the register: offset + width is at most the resolved
\* register width, so no shifted mask exceeds the register type.
C23_RangesInsideRegister ==
    gen.status = "ok" =>
        /\ \A i \in Named(gen) :
              /\ ~RangeEnd(i).ovf
              /\ U32Leq(RangeEnd(i).v, U32(gen.structsize))
        /\ \A i, j \in Named(gen) :
              i < j => U32Leq(RangeEnd(i).v, gen.accs[j].field_offset)

\* the same for the schemas whose slot widths do not sum beyond u32
RangesInsideRegisterWithoutWrap ==
    ~OffsetAt(fields, Len(fields) + 1).ovf => C23_RangesInsideRegister

====
